---- MODULE Spec2Model ----
(***************************************************************************)
(* Model of main.py: the first-run bootstrap (firstsetup), the marker file *)
(* that gates it, and start(), over a sequence of process runs that share  *)
(* one filesystem.                                                         *)
(***************************************************************************)
EXTENDS Integers, Sequences, FiniteSets, TLC

\* ------------------------------------------------------------------ bounds
\* number of process runs explored
MaxRuns == 2
\* number of changes made to the filesystem from outside, between runs
MaxEnvOps == 1
\* number of lines of the go.mod texts the patch is exercised on
MaxLines == 2

\* ------------------------------------------------------- program constants
\* the tools of the toolkit's bin directory (two stand for the set)
Names == {"mp4dump", "mp4info"}
\* bin_candidates[0] / "bin"
BinDirName == "bento4/Bento4-SDK/bin"
\* str(WRAPPER_DIR)
WrapperDirName == "wrapper"
\* mode of a file written by ZipFile.extractall (no execute bit)
ExtractedMode == 420
\* 0o755, the bits main.py ORs into a mode
ChmodBits == 493
\* 0o111, the execute bits os.access(.., X_OK) looks at for uid 0
ExecBits == 73
\* no file at a path
NoFile == -1
\* there is no go.mod
NoGoMod == <<"<no file>">>
\* os.environ has no PATH entry
NoPath == <<"<unset>">>
\* values PATH may have when a process starts
PathValues == {NoPath, <<"/usr/bin", "/bin">>}
\* what may sit at /usr/local/bin/<name> before the program ever ran
ForeignKinds == {"none", "file", "dir", "symlink", "dangling"}

\* ------------------------------------------------------------------- state
VARIABLES
  \* filesystem
  marker_file,    \* PROJECT_DIR/firstrun exists
  bentoLayout,    \* BENTO4_DIR: "absent", or what it holds: "nofolder", "nobin", "bin"
  bentoFull,      \* BENTO4_DIR holds the whole archive
  bentoZip,       \* PROJECT_DIR/bento4.zip exists
  binFiles,       \* name -> mode of the file in bin_dir, or NoFile
  links,          \* name -> entry at /usr/local/bin/name
  wrapperDir,     \* WRAPPER_DIR: "absent", "partial" (extraction broke off), "full"
  wrapperMode,    \* mode of WRAPPER_DIR/wrapper, or NoFile
  wrapperZip,     \* PROJECT_DIR/wrapper.x86_64.zip exists
  amdDir,         \* AMD_DIR exists
  goMod,          \* bytes of AMD_DIR/go.mod, or NoGoMod
  \* the running process
  pc,             \* position of the process, "idle" between runs
  euid,           \* os.geteuid()
  path,           \* os.environ["PATH"]
  exitStatus,     \* status the process ended with (0 while running)
  fatal,          \* the error that ended the process, "none" otherwise
  \* observations of the current run
  runs,           \* processes started so far
  envOps,         \* outside changes made so far
  markerAtStart,  \* marker_file.exists() as evaluated at line 229
  startFS,        \* the filesystem when the process started
  ranSetup,       \* firstsetup() was called in this run
  steps,          \* the components executed in this run, in order
  downloads,      \* urlretrieve calls of this run
  clones,         \* git clone calls of this run
  lastPass,       \* the symlink pass of this run: "none", "first", "rerun"
  preLinks,       \* links when that pass began
  preExec,        \* the files the pass found execute-permitted
  failSet,        \* names for which os.symlink is refused by the OS in that pass
  outcome,        \* name -> what the pass reported for it
  pathRead,       \* PATH as start() read it
  markerWrites,   \* number of writes to the marker file
  markerRunSteps, \* steps of the run that wrote the marker
  prevFS,         \* filesystem at the end of a first run from an empty environment
  startPath,      \* os.environ["PATH"] when the process started
  clonedText,     \* go.mod as the clone of this run delivered it
  patchIO,        \* how the file operations of the go.mod patch of this run went
  input           \* the argument, where one function is exercised on its own

fsvars == <<marker_file, bentoLayout, bentoFull, bentoZip, binFiles, links,
            wrapperDir, wrapperMode, wrapperZip, amdDir, goMod>>
procvars == <<pc, euid, path, exitStatus, fatal>>
histvars == <<runs, envOps, markerAtStart, startFS, ranSetup, steps, downloads, clones,
              lastPass, preLinks, preExec, failSet, outcome, pathRead,
              markerWrites, markerRunSteps, prevFS, startPath, clonedText,
              patchIO, input>>
vars == <<fsvars, procvars, histvars>>

\* the filesystem as one value
FS == fsvars

\* ----------------------------------------------------------------- helpers
RECURSIVE BitOr(_, _)
\* a | b on non-negative integers
BitOr(a, b) ==
  IF a = 0 THEN b
  ELSE IF b = 0 THEN a
  ELSE (IF a % 2 = 1 \/ b % 2 = 1 THEN 1 ELSE 0) + 2 * BitOr(a \div 2, b \div 2)

RECURSIVE BitAnd(_, _)
\* a & b on non-negative integers
BitAnd(a, b) ==
  IF a = 0 \/ b = 0 THEN 0
  ELSE (IF a % 2 = 1 /\ b % 2 = 1 THEN 1 ELSE 0) + 2 * BitAnd(a \div 2, b \div 2)

\* exe_file.chmod(current_mode | 0o755)
ChmodMode(m) == BitOr(m, ChmodBits)

\* exe_file.is_file() and os.access(exe_file, os.X_OK), evaluated as uid 0
IsExecutable(files, n) == files[n] # NoFile /\ BitAnd(files[n], ExecBits) # 0

\* link_path.exists(): follows symbolic links, so a link whose target is gone
\* does not exist; "tool" is a link to bin_dir/name
LinkExists(lk, files, n) ==
  \/ lk[n] \in {"file", "dir", "symlink"}
  \/ lk[n] = "tool" /\ files[n] # NoFile

\* os.symlink(src, link_path) raises: the OS refuses it, or an entry of any
\* kind is at link_path (FileExistsError)
SymlinkRaises(lk, fail, n) == n \in fail \/ lk[n] # "none"

\* f"{d}:{os.environ['PATH']}"
Prepend(d, p) == <<d>> \o p

\* the orders in which glob("*") may yield the files of S
Orders(S) == {f \in [1..Cardinality(S) -> S] : \A i, j \in 1..Cardinality(S) : f[i] = f[j] => i = j}

NoOutcome == [n \in Names |-> "none"]
NoFiles == [n \in Names |-> NoFile]

\* what the toolkit archive may hold: <<layout, files of bin_dir>>
ArchiveContents ==
  { <<"nofolder", NoFiles>>, <<"nobin", NoFiles>>,
    <<"bin", [n \in Names |-> ExtractedMode]>> }

\* what BENTO4_DIR may hold when extractall raised part-way
PartialContents ==
  { <<"nofolder", NoFiles>>, <<"nobin", NoFiles>> } \cup
  { <<"bin", [n \in Names |-> IF n \in S THEN ExtractedMode ELSE NoFile]>> : S \in SUBSET Names }

\* list(BENTO4_DIR.glob("Bento4*")) is not empty
ToolkitFound == bentoLayout \in {"nobin", "bin"}

\* the whole per-run record, as it is when no process runs
ResetRun ==
  /\ markerAtStart' = FALSE
  /\ startFS' = <<>>
  /\ ranSetup' = FALSE
  /\ steps' = <<>>
  /\ downloads' = 0
  /\ clones' = 0
  /\ lastPass' = "none"
  /\ preLinks' = NoOutcome
  /\ preExec' = {}
  /\ failSet' = {}
  /\ outcome' = NoOutcome
  /\ pathRead' = NoPath
  /\ startPath' = NoPath
  /\ clonedText' = NoGoMod
  /\ patchIO' = "none"

\* the error is swallowed and firstsetup returns normally
SwallowError(e) ==
  /\ pc' = "marker"
  /\ exitStatus' = 0
  /\ fatal' = e

\* sys.exit(1), or an exception nothing catches: the interpreter ends with status 1
Die(e) ==
  /\ pc' = "exited"
  /\ exitStatus' = 1
  /\ fatal' = e

\* go.mod of an apple-music-downloader/ that was put there by hand before the
\* first run: "go 1.2.3"
UserGoMod == <<"g", "o", " ", "1", ".", "2", ".", "3">>

\* ------------------------------------------------------------------- Init
Init ==
  /\ marker_file = FALSE
  /\ bentoLayout = "absent" /\ bentoFull = FALSE /\ bentoZip = FALSE
  /\ binFiles = NoFiles
  /\ links \in [Names -> ForeignKinds]
  /\ wrapperDir = "absent" /\ wrapperMode = NoFile /\ wrapperZip = FALSE
  /\ \/ amdDir = FALSE /\ goMod = NoGoMod
     \/ amdDir = TRUE /\ goMod = UserGoMod
  /\ pc = "idle" /\ euid = 0 /\ path = NoPath /\ exitStatus = 0 /\ fatal = "none"
  /\ runs = 0 /\ envOps = 0
  /\ markerAtStart = FALSE /\ startFS = <<>> /\ ranSetup = FALSE /\ steps = <<>>
  /\ downloads = 0 /\ clones = 0
  /\ lastPass = "none" /\ preLinks = NoOutcome /\ preExec = {} /\ failSet = {}
  /\ outcome = NoOutcome /\ pathRead = NoPath
  /\ markerWrites = 0 /\ markerRunSteps = <<>>
  /\ prevFS = <<>>
  /\ startPath = NoPath /\ clonedText = NoGoMod /\ patchIO = "none"
  /\ input = <<>>

\* ---------------------------------------------------------------- actions
\* the marker check left out: first-setup on every start
AlwaysFirstSetup == TRUE

\* line 229: if not marker_file.exists()
NeedsFirstSetup == ~marker_file

\* the three dependency directories and the marker are all absent
EmptyEnvironment ==
  /\ ~marker_file /\ bentoLayout = "absent" /\ wrapperDir = "absent" /\ ~amdDir

\* a process starts: module level of main.py down to the marker check
StartProcess ==
  /\ pc = "idle"
  /\ runs < MaxRuns
  /\ \E uid \in {0, 1000}, p \in PathValues :
       /\ euid' = uid
       /\ path' = p
       /\ startPath' = p
  /\ clonedText' = NoGoMod /\ patchIO' = "none"
  /\ runs' = runs + 1
  /\ exitStatus' = 0 /\ fatal' = "none"
  /\ markerAtStart' = marker_file
  /\ startFS' = FS
  /\ ranSetup' = NeedsFirstSetup
  /\ pc' = IF NeedsFirstSetup THEN "guard" ELSE "compose"
  /\ steps' = <<>>
  /\ downloads' = 0 /\ clones' = 0
  /\ lastPass' = "none" /\ preLinks' = NoOutcome /\ preExec' = {} /\ failSet' = {}
  /\ outcome' = NoOutcome /\ pathRead' = NoPath
  /\ prevFS' = IF prevFS = <<>> /\ EmptyEnvironment THEN <<"first">> ELSE prevFS
  /\ UNCHANGED <<fsvars, envOps, markerWrites, markerRunSteps, input>>

\* the privilege check left out
NeverRefused == FALSE

\* line 15: os.geteuid() != 0
NotElevated == euid # 0

\* lines 15-17: the privilege check
PrivilegeGuard ==
  /\ pc = "guard"
  /\ steps' = Append(steps, "guard")
  /\ IF NotElevated
       THEN Die("privilege")
       ELSE pc' = "install" /\ UNCHANGED <<exitStatus, fatal>>
  /\ UNCHANGED <<fsvars, euid, path, runs, envOps, markerAtStart, startFS, ranSetup, downloads,
                 clones, lastPass, preLinks, preExec, failSet, outcome, pathRead,
                 markerWrites, markerRunSteps, prevFS, startPath,
                 clonedText, patchIO, input>>

\* lines 21-25 and 207-209: apt-get install, check=True
InstallPackages ==
  /\ pc = "install"
  /\ steps' = Append(steps, "install")
  /\ \E ok \in BOOLEAN :
       IF ok THEN pc' = "toolkit" /\ UNCHANGED <<exitStatus, fatal>>
             ELSE Die("install")
  /\ UNCHANGED <<fsvars, euid, path, runs, envOps, markerAtStart, startFS, ranSetup, downloads,
                 clones, lastPass, preLinks, preExec, failSet, outcome, pathRead,
                 markerWrites, markerRunSteps, prevFS, startPath,
                 clonedText, patchIO, input>>

\* line 31: BENTO4_DIR.exists()
ToolkitExists == bentoLayout # "absent"

\* lines 28-41 and 116-117: download and extract Bento4 unless BENTO4_DIR exists
ProvisionToolkit ==
  /\ pc = "toolkit"
  /\ steps' = Append(steps, "toolkit")
  /\ IF ~ToolkitExists
       THEN /\ downloads' = downloads + 1
            /\ \/ \* urlretrieve raises: nothing catches it
                  /\ \E z \in BOOLEAN : bentoZip' = (bentoZip \/ z)
                  /\ UNCHANGED <<bentoLayout, bentoFull, binFiles>>
                  /\ Die("download")
               \/ \* ZipFile / extractall raises after mkdir
                  /\ bentoZip' = TRUE
                  /\ \E c \in PartialContents :
                       bentoLayout' = c[1] /\ binFiles' = c[2]
                  /\ bentoFull' = FALSE
                  /\ Die("extract")
               \/ /\ bentoZip' = FALSE
                  /\ \E c \in ArchiveContents :
                       bentoLayout' = c[1] /\ binFiles' = c[2]
                  /\ bentoFull' = TRUE
                  /\ pc' = "mgr_first" /\ UNCHANGED <<exitStatus, fatal>>
       ELSE /\ pc' = "mgr_rerun"
            /\ UNCHANGED <<bentoLayout, bentoFull, bentoZip, binFiles, downloads, exitStatus, fatal>>
  /\ UNCHANGED <<marker_file, links, wrapperDir, wrapperMode, wrapperZip, amdDir, goMod,
                 euid, path, runs, envOps, markerAtStart, startFS, ranSetup,
                 clones, lastPass, preLinks, preExec, failSet, outcome, pathRead,
                 markerWrites, markerRunSteps, prevFS, startPath,
                 clonedText, patchIO, input>>

\* lines 60-69: chmod of every regular file of bin_dir
ChmodAll(files) ==
  [n \in Names |-> IF files[n] # NoFile THEN ChmodMode(files[n]) ELSE NoFile]

\* line 72: the files of bin_dir that are execute-permitted
ExecutableFiles(files) == {n \in Names : IsExecutable(files, n)}

\* lines 82-98: what the first pass does for one file, each file in its own try
FirstPassOutcome(lk, files, fail, n) ==
  IF LinkExists(lk, files, n) THEN "already"
  ELSE IF SymlinkRaises(lk, fail, n) THEN "failed"
  ELSE "created"

\* lines 44-114: the symlink pass that follows a fresh extraction
ManagerFirstPass ==
  /\ pc = "mgr_first"
  /\ steps' = Append(steps, "symlink")
  /\ CASE bentoLayout = "nobin" ->
            \* lines 50-52: return from firstsetup
            /\ pc' = "marker"
            /\ UNCHANGED <<binFiles, links, path, exitStatus, fatal, lastPass, preLinks,
                           preExec, failSet, outcome>>
       [] bentoLayout = "bin" ->
            LET files == ChmodAll(binFiles)
                exec == ExecutableFiles(files)
            IN /\ binFiles' = files
               /\ IF path = NoPath
                    THEN \* line 76: KeyError, which nothing catches
                         /\ Die("keyerror")
                         /\ UNCHANGED <<links, path, lastPass, preLinks, preExec,
                                        failSet, outcome>>
                    ELSE /\ path' = Prepend(BinDirName, path)
                         /\ \E fail \in SUBSET {n \in exec : ~LinkExists(links, files, n)} :
                              /\ failSet' = fail
                              /\ outcome' = [n \in Names |->
                                    IF n \in exec THEN FirstPassOutcome(links, files, fail, n)
                                                  ELSE "none"]
                              /\ links' = [n \in Names |->
                                    IF n \in exec /\ FirstPassOutcome(links, files, fail, n) = "created"
                                      THEN "tool" ELSE links[n]]
                         /\ lastPass' = "first"
                         /\ preLinks' = links
                         /\ preExec' = exec
                         /\ pc' = "wrapper"
                         /\ UNCHANGED <<exitStatus, fatal>>
       [] OTHER ->
            \* lines 113-114: no Bento4* folder
            /\ pc' = "wrapper"
            /\ UNCHANGED <<binFiles, links, path, exitStatus, fatal, lastPass, preLinks,
                           preExec, failSet, outcome>>
  /\ UNCHANGED <<marker_file, bentoLayout, bentoFull, bentoZip, wrapperDir, wrapperMode,
                 wrapperZip, amdDir, goMod, euid, runs, envOps, markerAtStart, startFS, ranSetup,
                 downloads, clones, pathRead, markerWrites, markerRunSteps, prevFS, startPath,
                 clonedText, patchIO, input>>

RECURSIVE CreateMissing(_, _, _)
\* lines 136-138 under the try of line 126: the links of missing_links are
\* created in order; the first os.symlink that raises ends the loop.
\* Yields <<links, outcome of each name of order>>.
CreateMissing(order, lk, fail) ==
  IF order = <<>> THEN <<lk, [n \in {} |-> "none"]>>
  ELSE LET n == Head(order) IN
       IF SymlinkRaises(lk, fail, n)
         THEN <<lk, [m \in {order[i] : i \in 1..Len(order)} |->
                       IF m = n THEN "failed" ELSE "unprocessed"]>>
         ELSE LET rest == CreateMissing(Tail(order), [lk EXCEPT ![n] = "tool"], fail)
              IN <<rest[1], [m \in {order[i] : i \in 1..Len(order)} |->
                               IF m = n THEN "created" ELSE rest[2][m]]>>

\* lines 128-132: the execute-permitted files whose link_path does not exist
MissingLinks(lk, files) ==
  {n \in ExecutableFiles(files) : ~LinkExists(lk, files, n)}

\* lines 119-144: the symlink pass over a BENTO4_DIR that already existed
ManagerRerunPass ==
  /\ pc = "mgr_rerun"
  /\ steps' = Append(steps, "symlink")
  /\ IF ~ToolkitFound
       THEN /\ pc' = "wrapper"
            /\ UNCHANGED <<links, path, exitStatus, fatal, lastPass, preLinks, preExec,
                           failSet, outcome>>
       ELSE IF path = NoPath
       THEN \* line 123: KeyError, outside the try of line 126
            /\ Die("keyerror")
            /\ UNCHANGED <<links, path, lastPass, preLinks, preExec, failSet, outcome>>
       ELSE /\ path' = Prepend(BinDirName, path)
            /\ LET missing == MissingLinks(links, binFiles) IN
               \E order \in Orders(missing), fail \in SUBSET missing :
                 LET r == CreateMissing(order, links, fail) IN
                 /\ links' = r[1]
                 /\ failSet' = fail
                 /\ outcome' = [n \in Names |->
                       IF n \in missing THEN r[2][n]
                       ELSE IF n \in ExecutableFiles(binFiles) THEN "already"
                       ELSE "none"]
            /\ lastPass' = "rerun"
            /\ preLinks' = links
            /\ preExec' = ExecutableFiles(binFiles)
            /\ pc' = "wrapper"
            /\ UNCHANGED <<exitStatus, fatal>>
  /\ UNCHANGED <<marker_file, bentoLayout, bentoFull, bentoZip, binFiles, wrapperDir,
                 wrapperMode, wrapperZip, amdDir, goMod, euid, runs, envOps,
                 markerAtStart, startFS, ranSetup, downloads, clones, pathRead, markerWrites,
                 markerRunSteps, prevFS, startPath,
                 clonedText, patchIO, input>>

\* line 150: WRAPPER_DIR.exists()
WrapperExists == wrapperDir # "absent"

\* lines 147-174: download and extract the wrapper unless WRAPPER_DIR exists
ProvisionWrapper ==
  /\ pc = "wrapper"
  /\ steps' = Append(steps, "wrapper")
  /\ IF ~WrapperExists
       THEN /\ downloads' = downloads + 1
            /\ \/ \* urlretrieve raises
                  /\ \E z \in BOOLEAN : wrapperZip' = (wrapperZip \/ z)
                  /\ UNCHANGED <<wrapperDir, wrapperMode>>
                  /\ Die("download")
               \/ \* ZipFile / extractall raises after mkdir
                  /\ wrapperZip' = TRUE
                  /\ wrapperDir' = "partial"
                  /\ \E m \in {NoFile, ExtractedMode} : wrapperMode' = m
                  /\ Die("extract")
               \/ /\ wrapperZip' = FALSE
                  /\ wrapperDir' = "full"
                  \* lines 161-170: chmod of the wrapper binary when it is there
                  /\ \E m \in {NoFile, ExtractedMode} :
                       wrapperMode' = IF m = NoFile THEN NoFile ELSE ChmodMode(m)
                  /\ pc' = "clone" /\ UNCHANGED <<exitStatus, fatal>>
       ELSE /\ pc' = "clone"
            /\ UNCHANGED <<wrapperDir, wrapperMode, wrapperZip, downloads, exitStatus, fatal>>
  /\ UNCHANGED <<marker_file, bentoLayout, bentoFull, bentoZip, binFiles, links, amdDir,
                 goMod, euid, path, runs, envOps, markerAtStart, startFS, ranSetup,
                 clones, lastPass, preLinks, preExec, failSet, outcome, pathRead,
                 markerWrites, markerRunSteps, prevFS, startPath,
                 clonedText, patchIO, input>>

\* \d
IsDigit(c) == c \in {"0", "1", "2", "3", "4", "5", "6", "7", "8", "9"}

RECURSIVE DigitRun(_, _)
\* \d+ is greedy: the length of the run of digits of s that starts at i
DigitRun(s, i) == IF i <= Len(s) /\ IsDigit(s[i]) THEN 1 + DigitRun(s, i + 1) ELSE 0

\* s has character c at position i
CharAt(s, i, c) == i <= Len(s) /\ s[i] = c

\* r'^go (\d+\.\d+)\.\d+' tried at position i of s:
\* <<last position of group 1, last position of the match>>, <<0, 0>> when it fails
GoMatch(s, i) ==
  LET a  == i + 3
      d1 == DigitRun(s, a)
      b  == a + d1 + 1
      d2 == DigitRun(s, b)
      c  == b + d2 + 1
      d3 == DigitRun(s, c)
  IN IF /\ i = 1 \/ s[i - 1] = "\n"
        /\ CharAt(s, i, "g") /\ CharAt(s, i + 1, "o") /\ CharAt(s, i + 2, " ")
        /\ d1 > 0 /\ CharAt(s, a + d1, ".")
        /\ d2 > 0 /\ CharAt(s, b + d2, ".")
        /\ d3 > 0
       THEN <<b + d2 - 1, c + d3 - 1>>
       ELSE <<0, 0>>

RECURSIVE ReSubFrom(_, _)
\* re.sub scanning s from position i on
ReSubFrom(s, i) ==
  IF i > Len(s) THEN <<>>
  ELSE LET m == GoMatch(s, i) IN
       IF m[2] > 0
         THEN <<"g", "o", " ">> \o SubSeq(s, i + 3, m[1]) \o ReSubFrom(s, m[2] + 1)
         ELSE <<s[i]>> \o ReSubFrom(s, i + 1)

\* the substitution without re.MULTILINE: ^ is the start of the text only
ReSubFirstLineOnly(content) ==
  LET m == GoMatch(content, 1) IN
  IF m[2] > 0
    THEN <<"g", "o", " ">> \o SubSeq(content, 4, m[1]) \o SubSeq(content, m[2] + 1, Len(content))
    ELSE content

\* line 194: re.sub(r'^go (\d+\.\d+)\.\d+', r'go \1', content, flags=re.MULTILINE)
ReSub(content) == ReSubFrom(content, 1)

RECURSIVE ReadText(_)
\* lines 189-190: open(go_mod_path, 'r').read() translates "\r\n" and a lone
\* "\r" to "\n"; what open(.., 'w') writes back has "\n" only
ReadText(b) ==
  IF b = <<>> THEN <<>>
  ELSE IF b[1] = "\r"
    THEN <<"\n">> \o ReadText(IF Len(b) >= 2 /\ b[2] = "\n" THEN SubSeq(b, 3, Len(b))
                                                            ELSE Tail(b))
    ELSE <<b[1]>> \o ReadText(Tail(b))

\* the go.mod a fresh clone may hold: none, "go 1.2.3", "go 1.2", "m\ngo 12.3.45\n"
RepoGoMods ==
  { NoGoMod,
    <<"g", "o", " ", "1", ".", "2", ".", "3">>,
    <<"g", "o", " ", "1", ".", "2">>,
    <<"m", "\n", "g", "o", " ", "1", "2", ".", "3", ".", "4", "5", "\n">> }

\* the patch without the test of line 196: go.mod is written whenever it was read
PatchAlwaysWrites(text, io) ==
  IF text = NoGoMod THEN text
  ELSE IF io = "readfail" THEN text
  ELSE IF io = "openfail" THEN text
  ELSE IF io = "writefail" THEN <<>>
  ELSE ReSub(ReadText(text))

\* lines 186-201: go.mod after the patch of a clone that holds text;
\* io is how the file operations go
PatchGoMod(text, io) ==
  IF text = NoGoMod THEN text
  ELSE IF io = "readfail" THEN text
  ELSE IF ReSub(ReadText(text)) = ReadText(text) THEN text
  ELSE IF io = "openfail" THEN text
  ELSE IF io = "writefail" THEN <<>>
  ELSE ReSub(ReadText(text))

\* how the file operations on a go.mod that holds text may go: all succeed,
\* the read raises, open(.., 'w') raises, or f.write raises after the
\* truncation; nothing is opened when there is no go.mod
PatchIOs(text) ==
  IF text = NoGoMod THEN {"none"}
  ELSE {"ok", "readfail", "openfail", "writefail"}

\* the existence check left out: clone on every first-setup
RepoNeverExists == FALSE

\* line 177: AMD_DIR.exists()
RepoExists == amdDir

\* lines 177-203: clone the repository unless AMD_DIR exists, then patch go.mod
CloneRepo ==
  /\ pc = "clone"
  /\ steps' = Append(steps, "clone")
  /\ IF ~RepoExists
       THEN /\ clones' = clones + 1
            /\ \/ \* git clone fails: CalledProcessError, lines 207-209
                  /\ UNCHANGED <<amdDir, goMod, clonedText, patchIO>>
                  /\ Die("clone")
               \/ /\ amdDir' = TRUE
                  /\ \E text \in RepoGoMods : \E io \in PatchIOs(text) :
                       /\ clonedText' = text
                       /\ patchIO' = io
                       /\ goMod' = PatchGoMod(text, io)
                  /\ pc' = "marker" /\ UNCHANGED <<exitStatus, fatal>>
       ELSE /\ pc' = "marker"
            /\ UNCHANGED <<amdDir, goMod, clones, exitStatus, fatal, clonedText, patchIO>>
  /\ UNCHANGED <<marker_file, bentoLayout, bentoFull, bentoZip, binFiles, links,
                 wrapperDir, wrapperMode, wrapperZip, euid, path, runs, envOps,
                 markerAtStart, startFS, ranSetup, downloads, lastPass, preLinks, preExec,
                 failSet, outcome, pathRead, markerWrites, markerRunSteps, prevFS, startPath,
                 input>>

\* lines 231-232: firstsetup returned, the marker is written
WriteMarker ==
  /\ pc = "marker"
  /\ marker_file' = TRUE
  /\ markerWrites' = markerWrites + 1
  /\ markerRunSteps' = steps
  /\ steps' = Append(steps, "marker")
  /\ pc' = "compose"
  /\ UNCHANGED <<bentoLayout, bentoFull, bentoZip, binFiles, links, wrapperDir,
                 wrapperMode, wrapperZip, amdDir, goMod, euid, path, exitStatus, fatal, runs,
                 envOps, markerAtStart, startFS, ranSetup, downloads, clones, lastPass, preLinks,
                 preExec, failSet, outcome, pathRead, prevFS, startPath,
                 clonedText, patchIO, input>>

\* the two prepends of start() in the other order
ComposePathSwapped(p) ==
  IF ToolkitFound THEN Prepend(BinDirName, Prepend(WrapperDirName, p))
                  ELSE Prepend(WrapperDirName, p)

\* lines 215-220: PATH as start() leaves it, from the value p it reads
ComposePath(p) ==
  Prepend(WrapperDirName, IF ToolkitFound THEN Prepend(BinDirName, p) ELSE p)

\* lines 212-220 of start()
ComposeEnvironment ==
  /\ pc = "compose"
  /\ steps' = Append(steps, "compose")
  /\ pathRead' = path
  /\ IF path = NoPath
       THEN \* os.environ['PATH'] raises KeyError
            /\ Die("keyerror")
            /\ UNCHANGED path
       ELSE /\ path' = ComposePath(path)
            /\ pc' = "launch"
            /\ UNCHANGED <<exitStatus, fatal>>
  /\ UNCHANGED <<fsvars, euid, runs, envOps, markerAtStart, startFS, ranSetup, downloads,
                 clones, lastPass, preLinks, preExec, failSet, outcome,
                 markerWrites, markerRunSteps, prevFS, startPath,
                 clonedText, patchIO, input>>

\* lines 223-224: app.run(host="0.0.0.0", port=5000, debug=True)
LaunchService ==
  /\ pc = "launch"
  /\ steps' = Append(steps, "launch")
  /\ pc' = "serving"
  /\ UNCHANGED <<fsvars, euid, path, exitStatus, fatal, runs, envOps, markerAtStart, startFS, ranSetup,
                 downloads, clones, lastPass, preLinks, preExec, failSet, outcome,
                 pathRead, markerWrites, markerRunSteps, prevFS, startPath,
                 clonedText, patchIO, input>>

\* the process is gone: it exited, or the operator stopped the service
EndProcess ==
  /\ pc \in {"serving", "exited"}
  /\ pc' = "idle"
  /\ euid' = 0 /\ path' = NoPath /\ exitStatus' = 0 /\ fatal' = "none"
  /\ ResetRun
  /\ prevFS' = IF prevFS = <<"first">>
                 THEN (IF pc = "serving" THEN <<"snap", FS>> ELSE <<>>)
                 ELSE prevFS
  /\ UNCHANGED <<fsvars, runs, envOps, markerWrites, markerRunSteps, input>>

\* between runs somebody removes an entry of /usr/local/bin
EnvRemoveLink ==
  /\ pc = "idle" /\ runs >= 1 /\ envOps < MaxEnvOps
  /\ \E n \in Names :
       /\ links[n] # "none"
       /\ links' = [links EXCEPT ![n] = "none"]
  /\ envOps' = envOps + 1
  /\ prevFS' = <<>>
  /\ UNCHANGED <<marker_file, bentoLayout, bentoFull, bentoZip, binFiles, wrapperDir,
                 wrapperMode, wrapperZip, amdDir, goMod, procvars, runs, markerAtStart, startFS,
                 ranSetup, steps, downloads, clones, lastPass, preLinks, preExec,
                 failSet, outcome, pathRead, markerWrites, markerRunSteps,
                 startPath, clonedText, patchIO, input>>

\* between runs somebody removes a dependency directory
EnvRemoveDir ==
  /\ pc = "idle" /\ runs >= 1 /\ envOps < MaxEnvOps
  /\ \/ /\ bentoLayout # "absent"
        /\ bentoLayout' = "absent" /\ bentoFull' = FALSE /\ binFiles' = NoFiles
        /\ UNCHANGED <<wrapperDir, wrapperMode, amdDir, goMod>>
     \/ /\ wrapperDir # "absent"
        /\ wrapperDir' = "absent" /\ wrapperMode' = NoFile
        /\ UNCHANGED <<bentoLayout, bentoFull, binFiles, amdDir, goMod>>
     \/ /\ amdDir
        /\ amdDir' = FALSE /\ goMod' = NoGoMod
        /\ UNCHANGED <<bentoLayout, bentoFull, binFiles, wrapperDir, wrapperMode>>
  /\ envOps' = envOps + 1
  /\ prevFS' = <<>>
  /\ UNCHANGED <<marker_file, bentoZip, links, wrapperZip, procvars, runs, markerAtStart, startFS,
                 ranSetup, steps, downloads, clones, lastPass, preLinks, preExec,
                 failSet, outcome, pathRead, markerWrites, markerRunSteps,
                 startPath, clonedText, patchIO, input>>

Next ==
  \/ StartProcess
  \/ PrivilegeGuard
  \/ InstallPackages
  \/ ProvisionToolkit
  \/ ManagerFirstPass
  \/ ManagerRerunPass
  \/ ProvisionWrapper
  \/ CloneRepo
  \/ WriteMarker
  \/ ComposeEnvironment
  \/ LaunchService
  \/ EndProcess
  \/ EnvRemoveLink
  \/ EnvRemoveDir

Spec == Init /\ [][Next]_vars

\* every step of a running process is taken: the program is sequential and
\* each of its calls returns or raises
FairSpec == Spec /\ WF_vars(Next)

\* ------------------------------------------------------------------ claims
\* the components executed so far in this run
StepSet == {steps[i] : i \in 1..Len(steps)}

\* control is inside firstsetup()
InFirstSetup ==
  pc \in {"guard", "install", "toolkit", "mgr_first", "mgr_rerun", "wrapper", "clone"}

\* C1: in every run first-setup executes exactly when the marker was absent at
\* process start, and once the marker exists no step enters first-setup again
\* (nor removes the marker), whatever the dependency directories hold.
C1_MarkerGating ==
  /\ [](pc # "idle" => /\ ranSetup <=> ~markerAtStart
                       /\ ranSetup <=> (InFirstSetup \/ "guard" \in StepSet)
                       /\ InFirstSetup => ~marker_file)
  /\ [][marker_file => marker_file' /\ ~InFirstSetup']_vars

\* C1 witness: a later run started with the marker present and BENTO4_DIR gone,
\* and reached the service without first-setup
C1_Witness ==
  /\ pc = "serving" /\ runs = 2 /\ markerAtStart /\ ~ranSetup
  /\ bentoLayout = "absent"

\* C2: whenever the marker exists, the run that wrote it executed package
\* installation, toolkit provisioning, the symlink pass, wrapper provisioning
\* and the clone, and the marker was written once.
C2_MarkerAfterFullSequence ==
  marker_file =>
    /\ \A st \in {"install", "toolkit", "symlink", "wrapper", "clone"} :
         \E i \in 1..Len(markerRunSteps) : markerRunSteps[i] = st
    /\ markerWrites = 1

\* C3: after a first run from an empty environment that reached the service,
\* every later state has the same filesystem (while nobody else changes it), and
\* a later run downloads nothing and clones nothing.
C3_Idempotence ==
  Len(prevFS) = 2 => /\ FS = prevFS[2]
                     /\ downloads = 0
                     /\ clones = 0

\* C3 witness: the second run reached the service after a complete first run
C3_Witness ==
  /\ Len(prevFS) = 2 /\ runs = 2 /\ pc = "serving"
  /\ bentoLayout = "bin" /\ wrapperDir = "full" /\ amdDir
  /\ \E n \in Names : links[n] = "tool"

\* C4: after a symlink pass, every execute-permitted file whose link path was
\* occupied by any entry has that entry unchanged and is reported already
\* present.
C4_NonClobber ==
  lastPass # "none" =>
    \A n \in preExec :
      preLinks[n] # "none" => links[n] = preLinks[n] /\ outcome[n] = "already"

\* C5: after the pass over an already existing BENTO4_DIR in which the OS
\* refused no symlink, exactly the executables whose link path was free have a
\* new link and every other entry is as it was.
C5_RepairExactlyMissing ==
  (lastPass = "rerun" /\ failSet = {}) =>
    \A n \in Names :
      IF n \in preExec /\ preLinks[n] = "none"
        THEN links[n] = "tool"
        ELSE links[n] = preLinks[n]

\* C6: after either symlink pass, a refused symlink is reported failed for its
\* file, and every execute-permitted file whose link path was free and whose
\* symlink the OS accepts has its link.
C6_FaultIsolation ==
  lastPass # "none" =>
    \A n \in preExec :
      /\ n \in failSet => outcome[n] = "failed"
      /\ (preLinks[n] = "none" /\ n \notin failSet) =>
           links[n] = "tool" /\ outcome[n] = "created"

\* C7: when package installation, a download, an extraction or the clone
\* failed, the failing step is the last one executed, the process has ended
\* with a non-zero status, the marker is not written and the service is not
\* launched.
C7_FatalAborts ==
  fatal \in {"install", "download", "extract", "clone"} =>
    /\ pc = "exited"
    /\ exitStatus # 0
    /\ ~marker_file
    /\ StepSet \cap {"marker", "compose", "launch"} = {}
    /\ steps[Len(steps)] \in
         (CASE fatal = "install" -> {"install"}
            [] fatal = "clone" -> {"clone"}
            [] OTHER -> {"toolkit", "wrapper"})

\* C7 witness: the clone failed after both archives were provisioned
C7_Witness ==
  /\ fatal = "clone" /\ pc = "exited"
  /\ bentoLayout = "bin" /\ wrapperDir = "full" /\ ~amdDir

\* C8: a run that enters first-setup with a non-zero effective uid has ended
\* with a non-zero status right after the guard: nothing else executed, the
\* filesystem is as it was at process start, the marker is absent.
C8_PrivilegeGuard ==
  (ranSetup /\ euid # 0 /\ pc \notin {"idle", "guard"}) =>
    /\ pc = "exited"
    /\ exitStatus # 0
    /\ steps = <<"guard">>
    /\ FS = startFS
    /\ ~marker_file
    /\ downloads = 0 /\ clones = 0

\* C8 witness: an unprivileged run was refused
C8_Witness == pc = "exited" /\ ranSetup /\ euid # 0 /\ fatal = "privilege"

\* the order of the components in a run that does first-setup
FullOrder ==
  <<"guard", "install", "toolkit", "symlink", "wrapper", "clone", "marker",
    "compose", "launch">>

\* C9: a run that reached the service executed, when the marker was absent at
\* start, all nine components once each in the fixed order, and when it was
\* present, the Environment Composer and the Service Launcher only.
C9_StepOrdering ==
  pc = "serving" =>
    steps = IF markerAtStart THEN <<"compose", "launch">> ELSE FullOrder

\* C10: at launch PATH is the wrapper directory, then the toolkit's bin
\* directory when a Bento4* folder is on disk, then the entries start() read
\* from the environment, in their order; with or without the marker.
C10_EnvironmentComposition ==
  pc \in {"launch", "serving"} =>
    /\ pathRead # NoPath
    /\ path = <<WrapperDirName>> \o
              (IF ToolkitFound THEN <<BinDirName>> ELSE <<>>) \o pathRead

\* C10 witness: a run with the marker present launched with the toolkit on disk
C10_Witness ==
  /\ pc = "serving" /\ markerAtStart /\ ToolkitFound
  /\ Len(pathRead) >= 2 /\ Len(path) = Len(pathRead) + 2

\* the names that have a file in bin_dir
FilesPresent(files) == {n \in Names : files[n] # NoFile}

\* C11: a provisioning step that begins with its directory present downloads
\* nothing, extracts nothing and clones nothing, and leaves the directory's
\* files as they are (modes and system-wide links apart); the symlink pass
\* over an existing BENTO4_DIR does not touch its files either.
C11_SkipIfPresent ==
  [][ /\ (pc = "toolkit" /\ ToolkitExists) =>
           /\ downloads' = downloads
           /\ <<bentoLayout, bentoFull, bentoZip>>' = <<bentoLayout, bentoFull, bentoZip>>
           /\ FilesPresent(binFiles') = FilesPresent(binFiles)
      /\ pc = "mgr_rerun" =>
           /\ downloads' = downloads
           /\ <<bentoLayout, bentoFull, bentoZip>>' = <<bentoLayout, bentoFull, bentoZip>>
           /\ FilesPresent(binFiles') = FilesPresent(binFiles)
      /\ (pc = "wrapper" /\ WrapperExists) =>
           /\ downloads' = downloads
           /\ <<wrapperDir, wrapperZip>>' = <<wrapperDir, wrapperZip>>
           /\ (wrapperMode' = NoFile) = (wrapperMode = NoFile)
      /\ (pc = "clone" /\ amdDir) =>
           /\ clones' = clones
           /\ <<amdDir, goMod>>' = <<amdDir, goMod>>
    ]_vars

\* C11 witness: first-setup went over an existing BENTO4_DIR and an existing
\* AMD_DIR, cloned nothing and left the go.mod found there as it was
C11_Witness ==
  /\ pc = "marker" /\ ranSetup
  /\ startFS[2] = "bin" /\ startFS[10] = TRUE
  /\ lastPass = "rerun" /\ clones = 0 /\ goMod = UserGoMod

\* ------------------------------------- the two pure functions on their own
\* lines a go.mod is put together from:
\*   "go 1.2.3"
\*   "go 1.2"
\*   "go 12.3.45"
\*   "go 1.2.3.4"
\*   " go 1.2.3"
\*   "go 1.2.3 x"
\*   "m"
\*   ""
\*   "go x"
\*   "go 1..3"
\*   "go  1.2.3"
\*   "go 1.2.x"
PureLines ==
  { <<"g", "o", " ", "1", ".", "2", ".", "3">>,
    <<"g", "o", " ", "1", ".", "2">>,
    <<"g", "o", " ", "1", "2", ".", "3", ".", "4", "5">>,
    <<"g", "o", " ", "1", ".", "2", ".", "3", ".", "4">>,
    <<" ", "g", "o", " ", "1", ".", "2", ".", "3">>,
    <<"g", "o", " ", "1", ".", "2", ".", "3", " ", "x">>,
    <<"m">>,
    <<>>,
    <<"g", "o", " ", "x">>,
    <<"g", "o", " ", "1", ".", ".", "3">>,
    <<"g", "o", " ", " ", "1", ".", "2", ".", "3">>,
    <<"g", "o", " ", "1", ".", "2", ".", "x">> }

RECURSIVE JoinLines(_, _, _)
\* the lines ls, each but the last followed by the line end nl, the last one
\* too when trailing
JoinLines(ls, nl, trailing) ==
  IF Len(ls) = 1 THEN (IF trailing THEN ls[1] \o nl ELSE ls[1])
  ELSE ls[1] \o nl \o JoinLines(Tail(ls), nl, trailing)

\* the go.mod texts the patch is exercised on, with LF or CRLF line ends
GoModTexts ==
  { JoinLines(ls, nl, tr) :
      ls \in UNION {[1..k -> PureLines] : k \in 1..MaxLines},
      nl \in {<<"\n">>, <<"\r", "\n">>},
      tr \in BOOLEAN }

\* the permission bits a file may have
Modes == 0..511

\* a clone holding go.mod = input waits for its patch, or a file of mode
\* input[1] waits for its chmod
PureInit ==
  /\ marker_file = FALSE
  /\ bentoLayout = "absent" /\ bentoFull = FALSE /\ bentoZip = FALSE
  /\ binFiles = NoFiles
  /\ links = NoOutcome
  /\ wrapperZip = FALSE
  /\ \/ /\ pc = "patch"
        /\ input \in GoModTexts
        /\ amdDir = TRUE /\ goMod = input
        /\ wrapperDir = "absent" /\ wrapperMode = NoFile
     \/ /\ pc = "chmod"
        /\ \E m \in Modes : input = <<m>>
        /\ wrapperDir = "full" /\ wrapperMode = input[1]
        /\ amdDir = FALSE /\ goMod = NoGoMod
  /\ euid = 0 /\ path = NoPath /\ exitStatus = 0 /\ fatal = "none"
  /\ runs = 0 /\ envOps = 0
  /\ markerAtStart = FALSE /\ startFS = <<>> /\ ranSetup = FALSE /\ steps = <<>>
  /\ downloads = 0 /\ clones = 0
  /\ lastPass = "none" /\ preLinks = NoOutcome /\ preExec = {} /\ failSet = {}
  /\ outcome = NoOutcome /\ pathRead = NoPath
  /\ markerWrites = 0 /\ markerRunSteps = <<>>
  /\ prevFS = <<>>
  /\ startPath = NoPath /\ clonedText = NoGoMod /\ patchIO = "none"

\* lines 186-199 with every file operation succeeding
ApplyPatch ==
  /\ pc = "patch"
  /\ goMod' = PatchGoMod(goMod, "ok")
  /\ pc' = "patched"
  /\ UNCHANGED <<marker_file, bentoLayout, bentoFull, bentoZip, binFiles, links,
                 wrapperDir, wrapperMode, wrapperZip, amdDir, euid, path, exitStatus,
                 fatal, histvars>>

\* lines 164-165 (and 64-66), once and then once more
ApplyChmod ==
  /\ pc \in {"chmod", "chmodded"}
  /\ wrapperMode' = ChmodMode(wrapperMode)
  /\ pc' = IF pc = "chmod" THEN "chmodded" ELSE "chmodded again"
  /\ UNCHANGED <<marker_file, bentoLayout, bentoFull, bentoZip, binFiles, links,
                 wrapperDir, wrapperZip, amdDir, goMod, euid, path, exitStatus,
                 fatal, histvars>>

PureNext == ApplyPatch \/ ApplyChmod

PureSpec == PureInit /\ [][PureNext]_vars

RECURSIVE SplitLines(_)
\* the lines of a text whose line ends are "\n"
SplitLines(t) ==
  IF \A i \in 1..Len(t) : t[i] # "\n" THEN <<t>>
  ELSE LET k == CHOOSE i \in 1..Len(t) : t[i] = "\n" /\ \A j \in 1..(i - 1) : t[j] # "\n"
       IN <<SubSeq(t, 1, k - 1)>> \o SplitLines(SubSeq(t, k + 1, Len(t)))

\* line l begins "go ", then a digits, ".", b digits, ".", d digits, and no
\* further digit
HasThreeComponents(l, a, b, d) ==
  /\ Len(l) >= a + b + d + 5
  /\ SubSeq(l, 1, 3) = <<"g", "o", " ">>
  /\ \A k \in 4..(3 + a) : IsDigit(l[k])
  /\ l[4 + a] = "."
  /\ \A k \in (5 + a)..(4 + a + b) : IsDigit(l[k])
  /\ l[5 + a + b] = "."
  /\ \A k \in (6 + a + b)..(5 + a + b + d) : IsDigit(l[k])
  /\ Len(l) > a + b + d + 5 => ~IsDigit(l[a + b + d + 6])

\* C12: after the patch, line by line: a line that begins with 'go ' and a
\* three-component version has the third component cut off ("go 1.23.1" is
\* now "go 1.23"), every other line, so a line 'go MAJOR.MINOR', is as it
\* was, and a text with no line beginning 'go ' is the same bytes as before.
C12_VersionPinPatch ==
  pc = "patched" =>
    LET c == SplitLines(ReadText(input))
        r == SplitLines(ReadText(goMod))
    IN /\ Len(r) = Len(c)
       /\ \A i \in 1..Len(c) :
            LET l == c[i] IN
            /\ \A a, b, d \in 1..Len(l) :
                 HasThreeComponents(l, a, b, d) =>
                   r[i] = SubSeq(l, 1, 4 + a + b) \o SubSeq(l, 6 + a + b + d, Len(l))
            /\ (\A a, b, d \in 1..Len(l) : ~HasThreeComponents(l, a, b, d)) => r[i] = l
       /\ (\A i \in 1..Len(c) : Len(c[i]) < 3 \/ SubSeq(c[i], 1, 3) # <<"g", "o", " ">>) =>
            goMod = input

\* C12 witness: "m\r\ngo 12.3.45" was patched to "m\ngo 12.3"
C12_Witness ==
  /\ pc = "patched"
  /\ input = <<"m", "\r", "\n", "g", "o", " ", "1", "2", ".", "3", ".", "4", "5">>
  /\ goMod = <<"m", "\n", "g", "o", " ", "1", "2", ".", "3">>

\* C16: after the permission repair of a file of mode m the mode is m with
\* the three execute bits set and nothing else changed, and it stays so when
\* the repair is applied again.
C16_ExecuteBitsOnly ==
  pc \in {"chmodded", "chmodded again"} => wrapperMode = BitOr(input[1], ExecBits)

\* C13: in a later run that reached the service with the toolkit's bin
\* directory on disk since its start, every executable whose system-wide link
\* was missing at the start has been given one (unless the OS refused it), and
\* the links this program made earlier are as they were.
C13_SelfHealingOnRestart ==
  (pc = "serving" /\ runs >= 2 /\ startFS[2] = "bin") =>
    \A n \in Names :
      /\ (IsExecutable(binFiles, n) /\ startFS[6][n] = "none" /\ n \notin failSet) =>
           links[n] = "tool"
      /\ startFS[6][n] = "tool" => links[n] = "tool"

\* no line of the go.mod text begins 'go ' and a three-component version
NoLineMatches(text) ==
  \A i \in 1..Len(SplitLines(ReadText(text))) :
    LET l == SplitLines(ReadText(text))[i] IN
    \A a, b, d \in 1..Len(l) : ~HasThreeComponents(l, a, b, d)

\* the clone of this run succeeded
CloneSucceeded == clones = 1 /\ fatal # "clone" /\ pc # "clone"

\* C14: once the clone of a run succeeded, whatever the patch of go.mod met,
\* first-setup returns, the marker is written and start() is entered; nothing
\* ends the run before the service but start() finding no PATH in the
\* environment. When there is no go.mod or no line matches, go.mod is as cloned.
C14_PatchFailuresNonFatal ==
  CloneSucceeded =>
    /\ pc \in {"marker", "compose", "launch", "serving", "exited"}
    /\ pc # "marker" => marker_file /\ "marker" \in StepSet
    /\ pc \in {"launch", "serving"} => "compose" \in StepSet
    /\ pc = "exited" => fatal = "keyerror" /\ startPath = NoPath
    /\ (clonedText = NoGoMod \/ NoLineMatches(clonedText)) => goMod = clonedText

\* C14 witness: writing the patched go.mod failed, and the service was launched
C14_Witness ==
  /\ pc = "serving" /\ CloneSucceeded /\ marker_file
  /\ patchIO = "writefail" /\ goMod = <<>>

\* C15: after either symlink pass every file of the bin directory is
\* execute-permitted and was among the files the pass took for executable.
C15_PermissionRepairEveryPass ==
  lastPass # "none" =>
    \A n \in FilesPresent(binFiles) : IsExecutable(binFiles, n) /\ n \in preExec

\* C17: a BENTO4_DIR or WRAPPER_DIR that exists holds the whole archive, and
\* no downloaded archive file is left behind.
C17_NoPartialArchiveState ==
  /\ ToolkitExists => bentoFull
  /\ WrapperExists => wrapperDir = "full"
  /\ ~bentoZip /\ ~wrapperZip

\* C18: PATH at launch is what start() alone composes from the PATH the
\* process started with and the directories on disk, whether or not
\* first-setup ran in this process.
C18_PathIndependentOfSetup ==
  pc \in {"launch", "serving"} => path = ComposePath(startPath)

====
